---- MODULE Spec2Model ----
(***************************************************************************)
(* State machine of the token canister in                                  *)
(* src/src/rust-token-backend/src/lib.rs: the TokenState held in STATE,    *)
(* one action per entry point (init, add_minter, mint, transfer, approve,  *)
(* transfer_from, pause, unpause), the host clock read through time() and  *)
(* the caller read through caller().                                       *)
(*                                                                         *)
(* Scaling.  TLC's integers are 32 bits wide, so the two u64 quantities    *)
(* that do not fit are scaled:                                             *)
(*   - time is counted in half windows (1_800_000_000_000 ns), so that     *)
(*     TRANSACTION_WINDOW is 2 units;                                      *)
(*   - U64_MAX stands for u64::MAX; every u64 addition of the code is      *)
(*     taken modulo U64_MAX + 1 or traps, as the build decides.            *)
(* Amounts (1_000_000 initial supply, MAX_MINT_AMOUNT) keep their values.  *)
(***************************************************************************)
EXTENDS Integers, Sequences, FiniteSets, TLC

VARIABLES
    balances,               \* HashMap<Principal, u64>
    allowances,             \* HashMap<Principal, HashMap<Principal, Allowance>>, keyed <<owner, spender>>
    total_supply,           \* u64
    owner,                  \* Principal
    minters,                \* Vec<Principal>
    paused,                 \* bool
    transaction_count,      \* HashMap<Principal, u64>
    last_transaction_time,  \* HashMap<Principal, u64>
    now,                    \* the host clock, what time() returns
    initialized,            \* whether the host has run init()
    overflow_checks,        \* the build: TRUE when u64 overflow panics, FALSE when it wraps
    calls,                  \* number of entry-point calls made so far
    run,                    \* per identity, its current run of consecutive transfers
    spending,               \* per pair <<owner, spender>>, what the last approve granted and what was moved since
    last                    \* the last call: entry point, caller, arguments, result

vars == <<balances, allowances, total_supply, owner, minters, paused,
          transaction_count, last_transaction_time, now, initialized,
          overflow_checks, calls, run, spending, last>>

state == <<balances, allowances, total_supply, owner, minters, paused,
           transaction_count, last_transaction_time>>

----------------------------------------------------------------------------
(* Program constants *)

MAX_TRANSACTIONS_PER_HOUR == 100

\* 3600_000_000_000 ns, in half windows
TRANSACTION_WINDOW == 2

MAX_MINT_AMOUNT == 1000000

INITIAL_SUPPLY == 1000000

(* Bounds of the model *)

\* stands for u64::MAX
U64_MAX == 1073741823

\* the clock stops advancing here
MaxTime == 1

\* entry-point calls in a run of Spec, init included
MaxCalls == 4

\* mints stop in Spec and SpecRate once the supply would pass this
MaxSupply == 1000050

Identity == {"A", "S", "R"}

ANONYMOUS == "anonymous"

EmptyMap == [x \in {} |-> 0]

----------------------------------------------------------------------------
(* HashMap helpers *)

\* map.get(&k).unwrap_or(&d)
Get(map, k, d) == IF k \in DOMAIN map THEN map[k] ELSE d

\* map.insert(k, v)
Put(map, k, v) == [x \in DOMAIN map \cup {k} |-> IF x = k THEN v ELSE map[x]]

(* u64 arithmetic *)

Overflows(a, b) == a + b > U64_MAX

WrappingAdd(a, b) == (a + b) % (U64_MAX + 1)

----------------------------------------------------------------------------
(* The record of a call *)

NoArgs == [from |-> "-", to |-> "-", spender |-> "-", amount |-> 0, duration |-> 0]

\* count is the caller's transaction count when the call was made
Call(op, c, args, res) ==
    [op |-> op, caller |-> c, from |-> args.from, to |-> args.to,
     spender |-> args.spender, amount |-> args.amount,
     duration |-> args.duration, res |-> res,
     count |-> Get(transaction_count, c, 0)]

\* no run of transfers is under way; of a run, t0 is the time of its first
\* transfer, t the time of its latest and n their number
NoRun == [t0 |-> 0, t |-> 0, n |-> 0]

----------------------------------------------------------------------------
Init ==
    /\ balances = EmptyMap
    /\ allowances = EmptyMap
    /\ total_supply = 0
    /\ owner = ANONYMOUS
    /\ minters = <<>>
    /\ paused = FALSE
    /\ transaction_count = EmptyMap
    /\ last_transaction_time = EmptyMap
    /\ now = 0
    /\ initialized = FALSE
    /\ overflow_checks \in BOOLEAN
    /\ calls = 0
    /\ run = [i \in Identity |-> NoRun]
    /\ spending = EmptyMap
    /\ last = [op |-> "none", caller |-> "-", from |-> "-", to |-> "-",
               spender |-> "-", amount |-> 0, duration |-> 0, res |-> "-",
               count |-> 0]

\* init() without the push of the caller onto the minter list
InitializeNoMinter(c) ==
    /\ ~initialized
    /\ initialized' = TRUE
    /\ owner' = c
    /\ total_supply' = INITIAL_SUPPLY
    /\ balances' = Put(balances, c, INITIAL_SUPPLY)
    /\ last' = Call("init", c, NoArgs, "Ok")
    /\ UNCHANGED <<allowances, minters, paused, transaction_count,
                   last_transaction_time, now, overflow_checks>>

\* init()
Initialize(c) ==
    /\ ~initialized
    /\ initialized' = TRUE
    /\ owner' = c
    /\ minters' = Append(minters, c)
    /\ total_supply' = INITIAL_SUPPLY
    /\ balances' = Put(balances, c, INITIAL_SUPPLY)
    /\ last' = Call("init", c, NoArgs, "Ok")
    /\ UNCHANGED <<allowances, paused, transaction_count, last_transaction_time,
                   now, overflow_checks>>

\* the host clock advances between calls
Tick(max) ==
    /\ now < max
    /\ now' = now + 1
    /\ UNCHANGED <<state, initialized, overflow_checks, last>>

----------------------------------------------------------------------------
(* Helper functions of the canister *)

\* minters.contains(&p)
IsMinter(p) == \E i \in 1..Len(minters) : minters[i] = p

\* require_owner()
require_owner(c) == IF c # owner THEN "Unauthorized" ELSE "Ok"

\* check_rate_limit that rejects no caller
check_rate_limit_unlimited(user) == "Ok"

\* check_rate_limit with the count compared by > instead of >=
check_rate_limit_off_by_one(user) ==
    IF /\ user \in DOMAIN last_transaction_time
       /\ now - last_transaction_time[user] < TRANSACTION_WINDOW
       /\ user \in DOMAIN transaction_count
       /\ transaction_count[user] > MAX_TRANSACTIONS_PER_HOUR
    THEN "RateLimitExceeded"
    ELSE "Ok"

\* check_rate_limit(user): reads the record, changes nothing
check_rate_limit(user) ==
    IF /\ user \in DOMAIN last_transaction_time
       /\ now - last_transaction_time[user] < TRANSACTION_WINDOW
       /\ user \in DOMAIN transaction_count
       /\ transaction_count[user] >= MAX_TRANSACTIONS_PER_HOUR
    THEN "RateLimitExceeded"
    ELSE "Ok"

\* UpdatedCount without the reset after an idle window
UpdatedCountNoReset(user) == Get(transaction_count, user, 0) + 1

\* update_transaction_count: the count it stores for user
UpdatedCount(user) ==
    IF now - Get(last_transaction_time, user, 0) >= TRANSACTION_WINDOW
    THEN 1
    ELSE Get(transaction_count, user, 0) + 1

\* update_transaction_count without the insert of the time
update_transaction_count_no_time(user) ==
    /\ transaction_count' = Put(transaction_count, user, UpdatedCount(user))
    /\ UNCHANGED last_transaction_time

\* update_transaction_count(state, user), the two inserts together
update_transaction_count(user) ==
    /\ transaction_count' = Put(transaction_count, user, UpdatedCount(user))
    /\ last_transaction_time' = Put(last_transaction_time, user, now)

\* MovedBalances with the recipient's balance read before the debit is stored
MovedBalancesStale(from, to, amount) ==
    LET to_balance == Get(balances, to, 0)
        debited == Put(balances, from, Get(balances, from, 0) - amount)
    IN  Put(debited, to, WrappingAdd(to_balance, amount))

\* the two balance inserts of transfer and transfer_from: the debit is
\* stored first and the recipient's balance is read after it
MovedBalances(from, to, amount) ==
    LET debited == Put(balances, from, Get(balances, from, 0) - amount)
    IN  Put(debited, to, WrappingAdd(Get(debited, to, 0), amount))

\* whether to_balance + amount of transfer / transfer_from overflows
MoveOverflows(from, to, amount) ==
    LET debited == Put(balances, from, Get(balances, from, 0) - amount)
    IN  Overflows(Get(debited, to, 0), amount)

\* balance_of(account)
balance_of(account) == Get(balances, account, 0)

\* allowance(owner, spender) queried at the current time
allowance(o, s) ==
    IF <<o, s>> \in DOMAIN allowances
    THEN IF now > allowances[<<o, s>>].expires_at
         THEN 0
         ELSE allowances[<<o, s>>].amount
    ELSE 0

----------------------------------------------------------------------------
(* Entry points *)

\* TransferResult without the balance check
TransferResultNoBalanceCheck(c, to, amount) ==
    IF check_rate_limit(c) # "Ok" THEN "RateLimitExceeded"
    ELSE IF paused THEN "ContractPaused"
    ELSE IF overflow_checks /\ MoveOverflows(c, to, amount) THEN "Trap"
    ELSE "Ok"

\* TransferResult with the pause check before the rate-limit check
TransferResultPauseFirst(c, to, amount) ==
    IF paused THEN "ContractPaused"
    ELSE IF check_rate_limit(c) # "Ok" THEN "RateLimitExceeded"
    ELSE IF Get(balances, c, 0) < amount THEN "InsufficientBalance"
    ELSE IF overflow_checks /\ MoveOverflows(c, to, amount) THEN "Trap"
    ELSE "Ok"

\* what transfer(to, amount) returns to caller c
TransferResult(c, to, amount) ==
    IF check_rate_limit(c) # "Ok" THEN "RateLimitExceeded"
    ELSE IF paused THEN "ContractPaused"
    ELSE IF Get(balances, c, 0) < amount THEN "InsufficientBalance"
    ELSE IF overflow_checks /\ MoveOverflows(c, to, amount) THEN "Trap"
    ELSE "Ok"

\* transfer(to, amount) called by c
Transfer(c, to, amount) ==
    /\ initialized
    /\ LET res == TransferResult(c, to, amount) IN
       /\ last' = Call("transfer", c, [NoArgs EXCEPT !.to = to, !.amount = amount], res)
       /\ IF res = "Ok"
          THEN /\ balances' = MovedBalances(c, to, amount)
               /\ update_transaction_count(c)
          ELSE UNCHANGED <<balances, transaction_count, last_transaction_time>>
    /\ UNCHANGED <<allowances, total_supply, owner, minters, paused, now,
                   initialized, overflow_checks>>

\* OwnerOnlyResult without the owner check
OwnerOnlyResultOpen(c) == "Ok"

\* what add_minter / pause / unpause return to caller c
OwnerOnlyResult(c) == require_owner(c)

\* add_minter(minter) called by c
AddMinter(c, minter) ==
    /\ initialized
    /\ LET res == OwnerOnlyResult(c) IN
       /\ last' = Call("add_minter", c, [NoArgs EXCEPT !.to = minter], res)
       /\ IF res = "Ok" /\ ~IsMinter(minter)
          THEN minters' = Append(minters, minter)
          ELSE UNCHANGED minters
    /\ UNCHANGED <<balances, allowances, total_supply, owner, paused,
                   transaction_count, last_transaction_time, now, initialized,
                   overflow_checks>>

\* MintResult with the minter check before the amount check
MintResultAuthFirst(c, to, amount) ==
    IF ~IsMinter(c) THEN "Unauthorized"
    ELSE IF amount > MAX_MINT_AMOUNT THEN "InvalidAmount"
    ELSE IF overflow_checks /\ (Overflows(Get(balances, to, 0), amount)
                                \/ Overflows(total_supply, amount)) THEN "Trap"
    ELSE "Ok"

\* what mint(to, amount) returns to caller c
MintResult(c, to, amount) ==
    IF amount > MAX_MINT_AMOUNT THEN "InvalidAmount"
    ELSE IF ~IsMinter(c) THEN "Unauthorized"
    ELSE IF overflow_checks /\ (Overflows(Get(balances, to, 0), amount)
                                \/ Overflows(total_supply, amount)) THEN "Trap"
    ELSE "Ok"

\* mint(to, amount) called by c
Mint(c, to, amount) ==
    /\ initialized
    /\ LET res == MintResult(c, to, amount) IN
       /\ last' = Call("mint", c, [NoArgs EXCEPT !.to = to, !.amount = amount], res)
       /\ IF res = "Ok"
          THEN /\ balances' = Put(balances, to, WrappingAdd(Get(balances, to, 0), amount))
               /\ total_supply' = WrappingAdd(total_supply, amount)
          ELSE UNCHANGED <<balances, total_supply>>
    /\ UNCHANGED <<allowances, owner, minters, paused, transaction_count,
                   last_transaction_time, now, initialized, overflow_checks>>

\* what approve(spender, amount, duration) returns to caller c
ApproveResult(c, spender, amount, duration) ==
    IF overflow_checks /\ Overflows(now, duration) THEN "Trap" ELSE "Ok"

\* the expires_at approve computes: time() + duration
ExpiresAt(duration) == WrappingAdd(now, duration)

\* approve(spender, amount, duration) called by c
Approve(c, spender, amount, duration) ==
    /\ initialized
    /\ LET res == ApproveResult(c, spender, amount, duration) IN
       /\ last' = Call("approve", c,
                       [NoArgs EXCEPT !.spender = spender, !.amount = amount,
                                      !.duration = duration], res)
       /\ IF res = "Ok"
          THEN allowances' = Put(allowances, <<c, spender>>,
                                 [amount |-> amount, expires_at |-> ExpiresAt(duration)])
          ELSE UNCHANGED allowances
    /\ UNCHANGED <<balances, total_supply, owner, minters, paused,
                   transaction_count, last_transaction_time, now, initialized,
                   overflow_checks>>

\* TransferFromResult without the expiry check
TransferFromResultNoExpiry(c, from, to, amount) ==
    IF check_rate_limit(c) # "Ok" THEN "RateLimitExceeded"
    ELSE IF paused THEN "ContractPaused"
    ELSE IF <<from, c>> \notin DOMAIN allowances THEN "InsufficientAllowance"
    ELSE IF allowances[<<from, c>>].amount < amount THEN "InsufficientAllowance"
    ELSE IF Get(balances, from, 0) < amount THEN "InsufficientBalance"
    ELSE IF overflow_checks /\ MoveOverflows(from, to, amount) THEN "Trap"
    ELSE "Ok"

\* TransferFromResult with an allowance already expired at now = expires_at
TransferFromResultStrict(c, from, to, amount) ==
    IF check_rate_limit(c) # "Ok" THEN "RateLimitExceeded"
    ELSE IF paused THEN "ContractPaused"
    ELSE IF <<from, c>> \notin DOMAIN allowances THEN "InsufficientAllowance"
    ELSE IF now >= allowances[<<from, c>>].expires_at THEN "ExpiredAllowance"
    ELSE IF allowances[<<from, c>>].amount < amount THEN "InsufficientAllowance"
    ELSE IF Get(balances, from, 0) < amount THEN "InsufficientBalance"
    ELSE IF overflow_checks /\ MoveOverflows(from, to, amount) THEN "Trap"
    ELSE "Ok"

\* what transfer_from(from, to, amount) returns to caller c
TransferFromResult(c, from, to, amount) ==
    IF check_rate_limit(c) # "Ok" THEN "RateLimitExceeded"
    ELSE IF paused THEN "ContractPaused"
    ELSE IF <<from, c>> \notin DOMAIN allowances THEN "InsufficientAllowance"
    ELSE IF now > allowances[<<from, c>>].expires_at THEN "ExpiredAllowance"
    ELSE IF allowances[<<from, c>>].amount < amount THEN "InsufficientAllowance"
    ELSE IF Get(balances, from, 0) < amount THEN "InsufficientBalance"
    ELSE IF overflow_checks /\ MoveOverflows(from, to, amount) THEN "Trap"
    ELSE "Ok"

\* SpentAllowances with the entry of the pair (caller, from) looked up
\* instead of (from, caller)
SpentAllowancesSwapped(c, from, amount) ==
    IF <<c, from>> \in DOMAIN allowances
    THEN [allowances EXCEPT ![<<c, from>>].amount = @ - amount]
    ELSE allowances

\* the allowance entries after transfer_from's allowance.amount -= amount
SpentAllowances(c, from, amount) ==
    [allowances EXCEPT ![<<from, c>>].amount = @ - amount]

\* AllowancesAfter without the decrement of the allowance
AllowancesAfterKept(c, from, amount, res) == allowances

\* AllowancesAfter with the allowance spent before the balance is checked
AllowancesAfterEager(c, from, amount, res) ==
    IF res \in {"Ok", "InsufficientBalance"}
    THEN SpentAllowances(c, from, amount)
    ELSE allowances

\* the allowance entries transfer_from leaves behind, by its result
AllowancesAfter(c, from, amount, res) ==
    IF res = "Ok" THEN SpentAllowances(c, from, amount) ELSE allowances

\* transfer_from(from, to, amount) called by c
TransferFrom(c, from, to, amount) ==
    /\ initialized
    /\ LET res == TransferFromResult(c, from, to, amount) IN
       /\ last' = Call("transfer_from", c,
                       [NoArgs EXCEPT !.from = from, !.to = to, !.amount = amount], res)
       /\ allowances' = AllowancesAfter(c, from, amount, res)
       /\ IF res = "Ok"
          THEN /\ balances' = MovedBalances(from, to, amount)
               /\ update_transaction_count(c)
          ELSE UNCHANGED <<balances, transaction_count, last_transaction_time>>
    /\ UNCHANGED <<total_supply, owner, minters, paused, now, initialized,
                   overflow_checks>>

\* pause() called by c
Pause(c) ==
    /\ initialized
    /\ LET res == OwnerOnlyResult(c) IN
       /\ last' = Call("pause", c, NoArgs, res)
       /\ paused' = IF res = "Ok" THEN TRUE ELSE paused
    /\ UNCHANGED <<balances, allowances, total_supply, owner, minters,
                   transaction_count, last_transaction_time, now, initialized,
                   overflow_checks>>

\* unpause() called by c
Unpause(c) ==
    /\ initialized
    /\ LET res == OwnerOnlyResult(c) IN
       /\ last' = Call("unpause", c, NoArgs, res)
       /\ paused' = IF res = "Ok" THEN FALSE ELSE paused
    /\ UNCHANGED <<balances, allowances, total_supply, owner, minters,
                   transaction_count, last_transaction_time, now, initialized,
                   overflow_checks>>

----------------------------------------------------------------------------
(* Spec: every entry point, callers and arguments from small sets, runs of *)
(* at most MaxCalls calls.                                                 *)

Amounts == {50, 100}

MintAmounts == {50, MAX_MINT_AMOUNT + 1}

Durations == {0, 1, U64_MAX}

\* the pairs (owner, spender) that approve is called for
ApprovePairs == {<<"A", "S">>, <<"S", "R">>}

\* the run of Spec may make one more call
Budget == calls < MaxCalls

\* the account of each pair after the call recorded in last': an approve
\* that returned Ok opens the pair's account with the amount granted, a
\* transfer_from that returned Ok adds its amount to what the caller has
\* moved from the owner's balance
Accounted ==
    spending' =
        IF last'.res = "Ok" /\ last'.op = "approve"
        THEN Put(spending, <<last'.caller, last'.spender>>,
                 [approved |-> last'.amount, moved |-> 0])
        ELSE IF last'.res = "Ok" /\ last'.op = "transfer_from"
        THEN LET p == <<last'.from, last'.caller>>
                 acc == Get(spending, p, [approved |-> 0, moved |-> 0])
             IN  Put(spending, p, [acc EXCEPT !.moved = @ + last'.amount])
        ELSE spending

\* one more call of a run of Spec has been made
Counted == calls' = calls + 1 /\ UNCHANGED run /\ Accounted

Next ==
    \/ \E c \in {"A"} : Budget /\ Initialize(c) /\ Counted
    \/ Tick(MaxTime) /\ UNCHANGED <<calls, run, spending>>
    \/ \E c \in {"A", "S"}, m \in {"A", "S"} : Budget /\ AddMinter(c, m) /\ Counted
    \/ \E c \in {"A", "S"}, to \in {"S"}, amount \in MintAmounts :
          /\ Budget
          /\ total_supply + amount <= MaxSupply \/ amount > MAX_MINT_AMOUNT
          /\ Mint(c, to, amount) /\ Counted
    \/ \E c \in {"A", "S"}, to \in {"A", "S"}, amount \in {0, 50} :
          Budget /\ Transfer(c, to, amount) /\ Counted
    \/ \E p \in ApprovePairs, amount \in Amounts, d \in Durations :
          Budget /\ Approve(p[1], p[2], amount, d) /\ Counted
    \/ \E c \in Identity, from \in {"A", "S"}, amount \in Amounts :
          \E to \in {"R", from} : Budget /\ TransferFrom(c, from, to, amount) /\ Counted
    \/ \E c \in {"A", "S"} : Budget /\ Pause(c) /\ Counted
    \/ \E c \in {"A", "S"} : Budget /\ Unpause(c) /\ Counted

Spec == Init /\ [][Next]_vars

----------------------------------------------------------------------------
(* SpecRate: the rate limiter.  One caller, A, transfers without a bound   *)
(* on the number of calls, so that its count reaches                       *)
(* MAX_TRANSACTIONS_PER_HOUR; the amounts are chosen so that no balance    *)
(* changes (0 to R, 1 to A itself, or more than A holds).                  *)

\* the clock of SpecRate stops advancing here
MaxTimeRate == 2

\* <<to, amount>> of the transfers of A
RateTransfers == {<<"R", 0>>, <<"A", 1>>, <<"R", INITIAL_SUPPLY + 1>>}

\* whether user has no rate-limit record, or one at least a window old
Fresh(user) ==
    \/ user \notin DOMAIN last_transaction_time
    \/ now - last_transaction_time[user] >= TRANSACTION_WINDOW

\* whether user's run of transfers is under way and still within one
\* window of its first transfer
InRun(user) == run[user].n > 0 /\ now - run[user].t0 < TRANSACTION_WINDOW

\* the run of c after the call recorded in last': a successful transfer
\* from a fresh record starts a run, one within a window of the run's first
\* transfer extends it, any other successful transfer or transfer_from ends
\* it, and a rejected call leaves it as it is
Tracked(c) ==
    run' = IF last'.res # "Ok" \/ last'.op \notin {"transfer", "transfer_from"}
           THEN run
           ELSE IF last'.op = "transfer" /\ Fresh(c)
           THEN [run EXCEPT ![c] = [t0 |-> now, t |-> now, n |-> 1]]
           ELSE IF last'.op = "transfer" /\ InRun(c)
           THEN [run EXCEPT ![c].n = @ + 1, ![c].t = now]
           ELSE [run EXCEPT ![c] = NoRun]

Untracked == UNCHANGED <<calls, run, spending>>

NextRate ==
    \/ Initialize("A") /\ Untracked
    \/ Tick(MaxTimeRate) /\ Untracked
    \/ AddMinter("S", "S") /\ Untracked
    \/ \E amount \in {50, MAX_MINT_AMOUNT + 1} :
          Mint("S", "S", amount) /\ Untracked
    \/ \E t \in RateTransfers :
          Transfer("A", t[1], t[2]) /\ Tracked("A") /\ UNCHANGED <<calls, spending>>
    \/ Approve("S", "A", 1, 1) /\ Untracked
    \/ \E amount \in {0, 1, 2} :
          TransferFrom("A", "S", "R", amount) /\ Tracked("A") /\ UNCHANGED <<calls, spending>>
    \/ \E c \in {"A", "S"} : Pause(c) /\ Untracked
    \/ \E c \in {"A", "S"} : Unpause(c) /\ Untracked

SpecRate == Init /\ [][NextRate]_vars
----------------------------------------------------------------------------
(* SpecWindow: runs that outlast a window.  A transfers and calls          *)
(* transfer_from, with amount zero, while the clock advances by half       *)
(* windows, so that a run of calls each less than a window after the one   *)
(* before spans more than one window.                                      *)

\* the clock of SpecWindow stops advancing here
MaxTimeWindow == 3

\* whether c's latest successful call is less than a window ago
Chaining(c) == run[c].n > 0 /\ now - run[c].t < TRANSACTION_WINDOW

\* the run of c after the call recorded in last': a successful transfer or
\* transfer_from less than a window after the latest one extends the run,
\* any other successful one starts a run, a rejected call leaves it
Chained(c) ==
    run' = IF last'.res # "Ok" \/ last'.op \notin {"transfer", "transfer_from"}
           THEN run
           ELSE IF Chaining(c)
           THEN [run EXCEPT ![c].n = @ + 1, ![c].t = now]
           ELSE [run EXCEPT ![c] = [t0 |-> now, t |-> now, n |-> 1]]

NextWindow ==
    \/ Initialize("A") /\ Untracked
    \/ Tick(MaxTimeWindow) /\ Untracked
    \/ \E amount \in {0, INITIAL_SUPPLY + 1} :
          Transfer("A", "R", amount) /\ Chained("A") /\ UNCHANGED <<calls, spending>>
    \/ Approve("S", "A", 0, TRANSACTION_WINDOW) /\ Untracked
    \/ TransferFrom("A", "S", "R", 0) /\ Chained("A") /\ UNCHANGED <<calls, spending>>
    \/ Pause("A") /\ Untracked
    \/ Unpause("A") /\ Untracked

SpecWindow == Init /\ [][NextWindow]_vars

----------------------------------------------------------------------------
(* SpecMint: the top of the u64 range.  The owner mints MAX_MINT_AMOUNT to *)
(* itself again and again; the mints go on until the supply has fallen     *)
(* below the initial supply, which only a wrapped addition can do.         *)

NextMint ==
    \/ Initialize("A") /\ Untracked
    \/ /\ total_supply >= INITIAL_SUPPLY
       /\ Mint("A", "A", MAX_MINT_AMOUNT) /\ Untracked

SpecMint == Init /\ [][NextMint]_vars

----------------------------------------------------------------------------
(* Claims *)

RECURSIVE SumOver(_, _)
\* the sum of map[k] over the keys k of keys
SumOver(map, keys) ==
    IF keys = {} THEN 0
    ELSE LET k == CHOOSE x \in keys : TRUE
         IN  map[k] + SumOver(map, keys \ {k})

\* the sum of all stored balances
SumBalances == SumOver(balances, DOMAIN balances)

----------------------------------------------------------------------------
\* the errors an entry point returns
Errors == {"Unauthorized", "InvalidAmount", "ContractPaused", "RateLimitExceeded",
           "InsufficientAllowance", "ExpiredAllowance", "InsufficientBalance"}

\* a step in which an entry point is called (the clock stands still)
CallStep == now' = now

\* C2: atomicity on failure.  A call that returns an error leaves balances,
\* allowances, total_supply, owner, minters, paused and every rate-limit
\* count and last-transaction time unchanged.
C2_AtomicOnFailure ==
    [][(CallStep /\ last'.res \in Errors) => UNCHANGED state]_vars

\* C2 witness: a transfer_from was rejected with InsufficientBalance at a
\* time later than the caller's last transaction; the allowance it would
\* have spent is still whole and the caller's record is not advanced.
C2_Witness ==
    /\ last.op = "transfer_from" /\ last.res = "InsufficientBalance"
    /\ allowances[<<last.from, last.caller>>].amount = last.amount
    /\ last.amount > 0
    /\ last.caller \in DOMAIN last_transaction_time
    /\ last_transaction_time[last.caller] < now

C4_RateLimitBoundary ==
    [][(CallStep /\ last'.op = "transfer" /\ ~paused
          /\ balance_of(last'.caller) >= last'.amount)
         => LET c == last'.caller IN
            /\ Fresh(c) => last'.res = "Ok"
            /\ (InRun(c) /\ run[c].n < MAX_TRANSACTIONS_PER_HOUR) => last'.res = "Ok"
            /\ (InRun(c) /\ run[c].n = MAX_TRANSACTIONS_PER_HOUR)
                  => last'.res = "RateLimitExceeded"
            /\ run[c].n <= MAX_TRANSACTIONS_PER_HOUR]_vars

\* C4 witness: after a run of 100 transfers within one window, begun from a
\* record a window old, the 101st has been rejected.
C4_Witness ==
    /\ last.op = "transfer" /\ last.res = "RateLimitExceeded"
    /\ run[last.caller].n = MAX_TRANSACTIONS_PER_HOUR
    /\ run[last.caller].t0 >= TRANSACTION_WINDOW
    /\ InRun(last.caller) /\ ~paused

\* C5: allowance decrease.  A successful transfer_from(from = A, to = R, m)
\* by S lowers the stored allowance (A, S), and what allowance(A, S)
\* returns at that time, by exactly m without going below zero, moves m
\* from A's balance to R's (R different from A) and changes no other entry.
C5_AllowanceDecrease ==
    [][\A A \in Identity, S \in Identity, R \in Identity :
         (CallStep /\ last'.op = "transfer_from" /\ last'.res = "Ok"
            /\ last'.from = A /\ last'.caller = S /\ last'.to = R)
         => LET m == last'.amount
            IN  /\ <<A, S>> \in DOMAIN allowances
                /\ allowances'[<<A, S>>].amount = allowances[<<A, S>>].amount - m
                /\ allowances'[<<A, S>>].amount >= 0
                /\ allowances'[<<A, S>>].expires_at = allowances[<<A, S>>].expires_at
                /\ allowance(A, S)' = allowance(A, S) - m
                /\ R # A => /\ balance_of(A)' = balance_of(A) - m
                            /\ balance_of(R)' = balance_of(R) + m
                /\ DOMAIN allowances' = DOMAIN allowances
                /\ \A p \in DOMAIN allowances \ {<<A, S>>} :
                      allowances'[p] = allowances[p]]_vars

\* C5 witness: of an allowance of 100, 50 have been moved to another
\* identity and 50 are left.
C5_Witness ==
    /\ last.op = "transfer_from" /\ last.res = "Ok"
    /\ last.from # last.to /\ last.from # last.caller /\ last.amount = 50
    /\ allowance(last.from, last.caller) = 50
    /\ balance_of(last.to) = 50

\* C6 as stated (test_allowances): once A has approved another identity S
\* for n, unexpired, a transfer_from(from = A, to = R, m) called by A itself
\* with m <= n and m <= balance_of(A) succeeds, adds m to R's balance and
\* leaves allowance(A, S) = n - m.
C6_OwnerSpendsSpenderAllowance ==
    [][\A A \in Identity, R \in Identity :
         (CallStep /\ last'.op = "transfer_from" /\ R # A
            /\ last'.caller = A /\ last'.from = A /\ last'.to = R
            /\ ~paused /\ check_rate_limit(A) = "Ok")
         => LET m == last'.amount
            IN  \A S \in Identity \ {A} :
                   (/\ <<A, S>> \in DOMAIN allowances
                    /\ now <= allowances[<<A, S>>].expires_at
                    /\ m <= allowances[<<A, S>>].amount
                    /\ m <= balance_of(A))
                   => /\ last'.res = "Ok"
                      /\ balance_of(R)' = balance_of(R) + m
                      /\ allowance(A, S)' = allowances[<<A, S>>].amount - m]_vars

\* C7: expiry enforcement.  On an unpaused engine, for a caller S that is
\* not rate-limited, transfer_from(from = A, ..) returns ExpiredAllowance
\* exactly when the entry (A, S) exists and now > expires_at, whatever the
\* amount and the balance are; at now = expires_at an amount within the
\* allowance and the balance is moved; and allowance(A, S) returns 0 for an
\* absent or expired entry and the stored amount otherwise.
C7_ExpiryEnforcement ==
    [][(CallStep /\ last'.op = "transfer_from"
          /\ ~paused /\ check_rate_limit(last'.caller) = "Ok")
         => LET A == last'.from
                S == last'.caller
                m == last'.amount
                has == <<A, S>> \in DOMAIN allowances
            IN  /\ (last'.res = "ExpiredAllowance")
                      <=> (has /\ now > allowances[<<A, S>>].expires_at)
                /\ (has /\ now = allowances[<<A, S>>].expires_at
                        /\ m <= allowances[<<A, S>>].amount /\ m <= balance_of(A))
                      => last'.res = "Ok"
                /\ allowance(A, S) = IF ~has \/ last'.res = "ExpiredAllowance"
                                     THEN 0
                                     ELSE allowances[<<A, S>>].amount]_vars

\* C7 witness: a transfer_from within the stored amount and the balance has
\* been rejected with ExpiredAllowance.
C7_Witness ==
    /\ last.op = "transfer_from" /\ last.res = "ExpiredAllowance" /\ ~paused
    /\ last.amount <= allowances[<<last.from, last.caller>>].amount
    /\ last.amount <= balance_of(last.from)
    /\ allowance(last.from, last.caller) = 0

\* C8 as stated: approve(spender, amount, duration) by A at time now always
\* succeeds, sets the entry (A, spender) to exactly {amount, now + duration}
\* in place of any previous one, and changes no other entry, no balance and
\* no rate-limit record.
C8_ApproveOverwrites ==
    [][(CallStep /\ last'.op = "approve")
         => /\ last'.res = "Ok"
            /\ allowances' = Put(allowances, <<last'.caller, last'.spender>>,
                                 [amount |-> last'.amount,
                                  expires_at |-> now + last'.duration])
            /\ UNCHANGED <<balances, total_supply, transaction_count,
                           last_transaction_time>>]_vars

\* C9 as stated: approve stores expires_at = now + duration, or the maximum
\* timestamp when that sum exceeds it (saturating), so the stored expires_at
\* is never smaller than now.
C9_ApproveSaturates ==
    [][(CallStep /\ last'.op = "approve")
         => /\ last'.res = "Ok"
            /\ allowances'[<<last'.caller, last'.spender>>].expires_at
                  = IF now + last'.duration > U64_MAX
                    THEN U64_MAX
                    ELSE now + last'.duration
            /\ allowances'[<<last'.caller, last'.spender>>].expires_at >= now]_vars

----------------------------------------------------------------------------
----------------------------------------------------------------------------
\* C12 as stated: pause gates neither mint nor approve.  On a paused
\* engine a mint of at most MAX_MINT_AMOUNT by a minter and every approve
\* return Ok and have the effect they have on an unpaused engine (the
\* amount added to the recipient's balance and to total_supply; the pair's
\* entry replaced by the amount and the expiry approve computes), and they
\* leave the pause flag and every rate-limit record as they were.
C12_PauseDoesNotGate ==
    [][\A to \in Identity :
         (CallStep /\ paused /\ last'.op \in {"mint", "approve"} /\ last'.to \in {to, "-"})
         => LET c == last'.caller
                m == last'.amount
            IN  /\ UNCHANGED <<paused, transaction_count, last_transaction_time>>
                /\ (last'.op = "mint" /\ IsMinter(c) /\ m <= MAX_MINT_AMOUNT)
                      => /\ last'.res = "Ok"
                         /\ balance_of(to)' = balance_of(to) + m
                         /\ total_supply' = total_supply + m
                /\ last'.op = "approve"
                      => /\ last'.res = "Ok"
                         /\ allowances' = Put(allowances, <<c, last'.spender>>,
                                              [amount |-> m,
                                               expires_at |-> ExpiresAt(last'.duration)])]_vars

----------------------------------------------------------------------------
\* C13: owner gating.  add_minter, pause and unpause return Unauthorized to
\* every caller but the owner and then change nothing; called by the owner
\* they return Ok, pause sets and unpause clears the flag and add_minter
\* puts the identity in the minter list, each changing nothing else; on a
\* state that already has the flag or the minter they change nothing, and
\* the minter list never holds an identity twice.
C13_OwnerGating ==
    [][(CallStep /\ last'.op \in {"add_minter", "pause", "unpause"})
         => /\ last'.res = IF last'.caller = owner THEN "Ok" ELSE "Unauthorized"
            /\ last'.res = "Unauthorized" => UNCHANGED state
            /\ UNCHANGED <<balances, allowances, total_supply, owner,
                           transaction_count, last_transaction_time>>
            /\ (last'.res = "Ok" /\ last'.op = "pause")
                  => paused' /\ UNCHANGED minters
            /\ (last'.res = "Ok" /\ last'.op = "unpause")
                  => ~paused' /\ UNCHANGED minters
            /\ (last'.res = "Ok" /\ last'.op = "add_minter")
                  => /\ UNCHANGED paused
                     /\ \E i \in 1..Len(minters') : minters'[i] = last'.to
                     /\ IsMinter(last'.to) => UNCHANGED minters
                     /\ \A i \in 1..Len(minters) : minters'[i] = minters[i]
                     /\ Len(minters') <= Len(minters) + 1
            /\ \A i \in 1..Len(minters'), j \in 1..Len(minters') :
                  minters'[i] = minters'[j] => i = j]_vars

\* C13 witness: the owner has added itself, a minter since init, and the
\* minter list still holds one entry.
C13_Witness ==
    /\ last.op = "add_minter" /\ last.res = "Ok" /\ last.to = owner
    /\ minters = <<owner>>

\* C14: access-control state.  init by A leaves owner = A, minters = <<A>>,
\* paused = false and total_supply = balance_of(A) = 1_000_000; after it no
\* call changes the owner or removes a minter, and the owner is a minter.
C14_AccessControlState ==
    [][/\ \A A \in Identity :
            (last'.op = "init" /\ last'.caller = A /\ ~initialized)
            => /\ owner' = A /\ minters' = <<A>> /\ ~paused'
               /\ total_supply' = INITIAL_SUPPLY
               /\ balance_of(A)' = INITIAL_SUPPLY
       /\ initialized
             => /\ owner' = owner
                /\ \A p \in Identity : IsMinter(p) => IsMinter(p)'
       /\ initialized' => \E i \in 1..Len(minters') : minters'[i] = owner']_vars

\* C14 witness: a second minter has been added and has minted, and the
\* owner is still the initializer and still a minter.
C14_Witness ==
    /\ last.op = "mint" /\ last.res = "Ok" /\ last.caller # owner
    /\ Len(minters) = 2 /\ minters[1] = owner /\ minters[2] = last.caller
    /\ balance_of(owner) = INITIAL_SUPPLY

----------------------------------------------------------------------------
\* C17 as stated: overflow-safe supply arithmetic.  After init,
\* total_supply never falls and changes only in a mint that returned Ok, by
\* exactly the amount minted, and such a mint lowers no balance: no
\* addition wraps around the u64 range.
C17_OverflowSafeSupply ==
    [][last'.op # "init"
         => /\ total_supply' >= total_supply
            /\ total_supply' # total_supply
                  => /\ last'.op = "mint" /\ last'.res = "Ok"
                     /\ total_supply' = total_supply + last'.amount
            /\ \A i \in Identity :
                  (last'.op = "mint" /\ last'.res = "Ok")
                  => balance_of(i)' >= balance_of(i)]_vars

----------------------------------------------------------------------------
C19_SpendingWithinApproval ==
    [][\A p \in DOMAIN allowances' :
         /\ p \in DOMAIN spending'
         /\ spending'[p].moved <= spending'[p].approved
         /\ spending'[p].moved = spending'[p].approved - allowances'[p].amount
         /\ (p \notin DOMAIN allowances \/ allowances'[p].amount # allowances[p].amount)
               => /\ last'.res = "Ok"
                  /\ \/ /\ last'.op = "approve"
                        /\ last'.caller = p[1] /\ last'.spender = p[2]
                     \/ /\ last'.op = "transfer_from"
                        /\ last'.from = p[1] /\ last'.caller = p[2]]_vars

\* C19 witness: an approval of 100 has been spent to zero by two
\* transfer_from calls.
C19_Witness ==
    /\ last.op = "transfer_from" /\ last.res = "Ok" /\ last.amount = 50
    /\ LET p == <<last.from, last.caller>>
       IN  /\ p \in DOMAIN spending
           /\ spending[p].approved = 100 /\ spending[p].moved = 100
           /\ allowances[p].amount = 0

----------------------------------------------------------------------------
\* C16: idle-gap reset.  A transfer or transfer_from of a caller whose last
\* transaction is at least WINDOW old is never RateLimitExceeded, whatever
\* its count, and a transfer within the balance on an unpaused engine then
\* succeeds; a successful call sets the count to 1 after such a gap and
\* raises it by 1 otherwise, and sets the last-transaction time to now.
C16_IdleGapReset ==
    [][(CallStep /\ last'.op \in {"transfer", "transfer_from"}
          /\ last'.caller \in DOMAIN last_transaction_time)
         => LET c == last'.caller
                idle == now - last_transaction_time[c] >= TRANSACTION_WINDOW
            IN  /\ idle => last'.res # "RateLimitExceeded"
                /\ (idle /\ last'.op = "transfer" /\ ~paused
                        /\ last'.amount <= Get(balances, c, 0))
                      => last'.res = "Ok"
                /\ last'.res = "Ok"
                      => /\ transaction_count'[c]
                              = IF idle THEN 1 ELSE transaction_count[c] + 1
                         /\ last_transaction_time'[c] = now]_vars

\* C16 witness: a caller with a count of 100 has transferred again, a
\* window after its last transaction, and its count is 1.
C16_Witness ==
    /\ last.op = "transfer" /\ last.res = "Ok"
    /\ last.count = MAX_TRANSACTIONS_PER_HOUR
    /\ transaction_count[last.caller] = 1
    /\ last_transaction_time[last.caller] = now

\* C20: rate-limit records.  After every step the identities with a count
\* are those with a last-transaction time, every count is between 1 and
\* 100 and no recorded time is in the future; a record is written only by
\* a successful transfer or transfer_from, for its caller alone, and every
\* such call writes it, a transfer of amount zero included.
C20_RateRecords ==
    [][/\ DOMAIN transaction_count' = DOMAIN last_transaction_time'
       /\ \A i \in DOMAIN transaction_count' :
             /\ 1 <= transaction_count'[i]
             /\ transaction_count'[i] <= MAX_TRANSACTIONS_PER_HOUR
             /\ last_transaction_time'[i] <= now'
       /\ (transaction_count' # transaction_count
             \/ last_transaction_time' # last_transaction_time)
             => /\ last'.res = "Ok" /\ last'.op \in {"transfer", "transfer_from"}
                /\ \A i \in Identity \ {last'.caller} :
                      /\ i \in DOMAIN transaction_count' <=> i \in DOMAIN transaction_count
                      /\ i \in DOMAIN transaction_count
                            => /\ transaction_count'[i] = transaction_count[i]
                               /\ last_transaction_time'[i] = last_transaction_time[i]
       /\ (CallStep /\ last'.res = "Ok" /\ last'.op \in {"transfer", "transfer_from"})
             => LET c == last'.caller
                IN  /\ c \in DOMAIN transaction_count'
                    /\ last_transaction_time'[c] = now
                    /\ transaction_count'[c]
                         = IF /\ c \in DOMAIN last_transaction_time
                              /\ now - last_transaction_time[c] < TRANSACTION_WINDOW
                           THEN transaction_count[c] + 1
                           ELSE 1]_vars

\* C20 witness: a transfer_from of amount zero has raised its caller's
\* count from 99 to 100.
C20_Witness ==
    /\ last.op = "transfer_from" /\ last.res = "Ok" /\ last.amount = 0
    /\ last.count = MAX_TRANSACTIONS_PER_HOUR - 1
    /\ transaction_count[last.caller] = MAX_TRANSACTIONS_PER_HOUR

----------------------------------------------------------------------------
\* C15: fixed window with idle-gap reset only.  A run of successful
\* transfer / transfer_from calls of one identity, each less than WINDOW
\* after the one before, has at most 100 members however long it lasts;
\* when the count is 100 every transfer or transfer_from attempted less
\* than WINDOW after the last transaction is RateLimitExceeded and leaves
\* the record, and the rest of the state, as it was.
C15_BlockedUntilIdle ==
    [][(CallStep /\ last'.op \in {"transfer", "transfer_from"})
         => LET c == last'.caller
            IN  /\ run'[c].n <= MAX_TRANSACTIONS_PER_HOUR
                /\ (run[c].n = MAX_TRANSACTIONS_PER_HOUR /\ Chaining(c))
                      => last'.res = "RateLimitExceeded"
                /\ (/\ c \in DOMAIN transaction_count
                     /\ transaction_count[c] = MAX_TRANSACTIONS_PER_HOUR
                     /\ now - last_transaction_time[c] < TRANSACTION_WINDOW)
                      => /\ last'.res = "RateLimitExceeded"
                         /\ UNCHANGED state]_vars

\* C15 witness: a run of 100 calls that began more than a window ago is
\* blocked: the call after it, less than a window after its latest, was
\* rejected.
C15_Witness ==
    /\ last.op \in {"transfer", "transfer_from"} /\ last.res = "RateLimitExceeded"
    /\ run[last.caller].n = MAX_TRANSACTIONS_PER_HOUR
    /\ now - run[last.caller].t0 > TRANSACTION_WINDOW
    /\ Chaining(last.caller)

====
